---------------------------- MODULE Spec2Model ----------------------------
(***************************************************************************)
(* A model of fitness_processing.py: the three unit parsers, the type      *)
(* normalizer enforce_dtypes, the heart-rate window join find_hr, the two  *)
(* extractors get_hrs / get_runs and the day-keyed cache of                *)
(* FitnessProcessor (check_cache, load_csv, save_csvs, update_cache).      *)
(*                                                                         *)
(* Text is a sequence of one-character strings.  A Python float is a       *)
(* non-negative rational a/b in lowest terms, or nan, or inf.  A calendar  *)
(* date is the number yyyymmdd, a time of day the number of minutes since  *)
(* midnight.                                                               *)
(***************************************************************************)
EXTENDS Integers, Sequences, FiniteSets, TLC

(***************************************************************************)
(* Bounds of the model.                                                    *)
(***************************************************************************)
\* number of calendar days the wall clock runs through
MaxDay == 3
\* longest text handed to a unit parser
MaxLen == 4
\* most heart-rate samples in a table handed to find_hr
MaxSamples == 3
\* most workout records in a document handed to get_runs
MaxWorkouts == 2

(***************************************************************************)
(* Text.                                                                   *)
(***************************************************************************)
DigitChars == <<"0", "1", "2", "3", "4", "5", "6", "7", "8", "9">>

IsDigit(c) == \E i \in 1..10 : DigitChars[i] = c

DigitVal(c) == (CHOOSE i \in 1..10 : DigitChars[i] = c) - 1

IsDigits(t) == Len(t) >= 1 /\ \A i \in 1..Len(t) : IsDigit(t[i])

RECURSIVE DigitsVal(_)
DigitsVal(t) ==
    IF Len(t) = 0 THEN 0
    ELSE 10 * DigitsVal(SubSeq(t, 1, Len(t) - 1)) + DigitVal(t[Len(t)])

RECURSIVE Pow10(_)
Pow10(k) == IF k = 0 THEN 1 ELSE 10 * Pow10(k - 1)

\* str(n) of a natural number
RECURSIVE FmtNat(_)
FmtNat(n) ==
    IF n < 10 THEN <<DigitChars[n + 1]>>
    ELSE FmtNat(n \div 10) \o <<DigitChars[(n % 10) + 1]>>

\* n written with at least w digits, zero padded ("%02d", "%04d")
RECURSIVE FmtPad(_, _)
FmtPad(n, w) ==
    IF Len(FmtNat(n)) >= w THEN FmtNat(n) ELSE <<"0">> \o FmtPad(n, w - 1)

\* str.split(): the maximal runs of non-whitespace characters, in order
RECURSIVE SplitWsFrom(_, _, _, _)
SplitWsFrom(s, i, cur, acc) ==
    IF i > Len(s) THEN (IF cur = <<>> THEN acc ELSE Append(acc, cur))
    ELSE IF s[i] = " "
         THEN SplitWsFrom(s, i + 1, <<>>,
                          IF cur = <<>> THEN acc ELSE Append(acc, cur))
         ELSE SplitWsFrom(s, i + 1, Append(cur, s[i]), acc)

SplitWs(s) == SplitWsFrom(s, 1, <<>>, <<>>)

\* str.split(sep): the pieces between the separators, empty pieces kept
RECURSIVE SplitOnFrom(_, _, _, _, _)
SplitOnFrom(s, sep, i, cur, acc) ==
    IF i > Len(s) THEN Append(acc, cur)
    ELSE IF s[i] = sep
         THEN SplitOnFrom(s, sep, i + 1, <<>>, Append(acc, cur))
         ELSE SplitOnFrom(s, sep, i + 1, Append(cur, s[i]), acc)

SplitOn(s, sep) == SplitOnFrom(s, sep, 1, <<>>, <<>>)

(***************************************************************************)
(* Values: what a cell of a DataFrame, an attribute of the XML or an       *)
(* argument of a parser can be.  Every value is a record of one shape;     *)
(* k names the Python type.                                                *)
(*   str    s      the text                                                *)
(*   float  a / b  (lowest terms, b > 0)                                   *)
(*   int    a                                                              *)
(*   nan, inf, none (Python's None)                                        *)
(*   date   a = yyyymmdd                                                   *)
(*   time   a = minutes since midnight                                     *)
(*   ts     a = yyyymmdd, b = minutes since midnight (a Timestamp)         *)
(***************************************************************************)
RECURSIVE GCD(_, _)
GCD(x, y) == IF y = 0 THEN x ELSE GCD(y, x % y)

StrVal(t) == [k |-> "str", s |-> t, a |-> 0, b |-> 1]
FloatVal(x, y) == [k |-> "float", s |-> <<>>, a |-> x \div GCD(x, y), b |-> y \div GCD(x, y)]
IntVal(x) == [k |-> "int", s |-> <<>>, a |-> x, b |-> 1]
NaN == [k |-> "nan", s |-> <<>>, a |-> 0, b |-> 1]
Inf == [k |-> "inf", s |-> <<>>, a |-> 0, b |-> 1]
None == [k |-> "none", s |-> <<>>, a |-> 0, b |-> 1]
DateVal(d) == [k |-> "date", s |-> <<>>, a |-> d, b |-> 1]
TimeVal(t) == [k |-> "time", s |-> <<>>, a |-> t, b |-> 1]
TsVal(d, t) == [k |-> "ts", s |-> <<>>, a |-> d, b |-> t]
\* a raised exception, named by its Python class
Raise(name) == [k |-> "error", s |-> <<name>>, a |-> 0, b |-> 1]

IsError(v) == v.k = "error"

\* float(token) for tokens over digits, "." and letters: digits with at most
\* one point and at least one digit; anything else is a ValueError
PyFloat(t) ==
    LET parts == SplitOn(t, ".")
        ip == parts[1]
        fp == IF Len(parts) = 2 THEN parts[2] ELSE <<>>
        ok == /\ Len(parts) <= 2
              /\ \A i \in 1..Len(ip) : IsDigit(ip[i])
              /\ \A i \in 1..Len(fp) : IsDigit(fp[i])
              /\ Len(ip) + Len(fp) >= 1
    IN  IF ok
        THEN FloatVal(DigitsVal(ip) * Pow10(Len(fp)) + DigitsVal(fp), Pow10(Len(fp)))
        ELSE Raise("ValueError")

\* arithmetic of floats: nan propagates, x / 0 is inf (0 / 0 is nan)
FMul(x, y) ==
    IF x.k = "nan" \/ y.k = "nan" THEN NaN
    ELSE IF x.k = "inf" \/ y.k = "inf" THEN Inf
    ELSE FloatVal(x.a * y.a, x.b * y.b)

FDiv(x, y) ==
    IF x.k = "nan" \/ y.k = "nan" THEN NaN
    ELSE IF x.k = "inf" THEN (IF y.k = "inf" THEN NaN ELSE Inf)
    ELSE IF y.k = "inf" THEN FloatVal(0, 1)
    ELSE IF y.a = 0 THEN (IF x.a = 0 THEN NaN ELSE Inf)
    ELSE FloatVal(x.a * y.b, x.b * y.a)

(***************************************************************************)
(* The unit parsers.                                                       *)
(***************************************************************************)
\* s.split()[0]: an IndexError when the text holds no token
FirstToken(s) ==
    IF SplitWs(s) = <<>> THEN Raise("IndexError") ELSE StrVal(SplitWs(s)[1])

convert_elevation(s) ==
    IF s.k = "str"
    THEN IF IsError(FirstToken(s.s)) THEN FirstToken(s.s)
         ELSE IF IsError(PyFloat(FirstToken(s.s).s)) THEN PyFloat(FirstToken(s.s).s)
         ELSE FDiv(FMul(PyFloat(FirstToken(s.s).s), FloatVal(254, 100)), FloatVal(12, 1))
    ELSE s

convert_temp(s) ==
    IF s.k = "str"
    THEN IF IsError(FirstToken(s.s)) THEN FirstToken(s.s)
         ELSE PyFloat(FirstToken(s.s).s)
    ELSE s

\* convert_hum without its division: the percent-times-hundred figure as read
convert_hum_unscaled(s) ==
    IF s.k = "str"
    THEN IF IsError(FirstToken(s.s)) THEN FirstToken(s.s)
         ELSE PyFloat(FirstToken(s.s).s)
    ELSE s

convert_hum(s) ==
    IF s.k = "str"
    THEN IF IsError(FirstToken(s.s)) THEN FirstToken(s.s)
         ELSE IF IsError(PyFloat(FirstToken(s.s).s)) THEN PyFloat(FirstToken(s.s).s)
         ELSE FDiv(PyFloat(FirstToken(s.s).s), FloatVal(100, 1))
    ELSE s

(***************************************************************************)
(* Calendar dates, times of day and their text forms.                      *)
(***************************************************************************)
YearOf(d) == d \div 10000
MonthOf(d) == (d \div 100) % 100
DayOf(d) == d % 100

IsLeap(y) == (y % 4 = 0 /\ y % 100 # 0) \/ y % 400 = 0

DaysInMonth(y, m) ==
    IF m = 2 THEN (IF IsLeap(y) THEN 29 ELSE 28)
    ELSE IF m \in {4, 6, 9, 11} THEN 30 ELSE 31

\* what datetime.date(y, m, d) accepts
ValidDate(y, m, d) ==
    /\ y >= 1 /\ y <= 9999
    /\ m >= 1 /\ m <= 12
    /\ d >= 1 /\ d <= DaysInMonth(y, m)

\* str(datetime.date): YYYY-MM-DD
FmtDate(d) ==
    FmtPad(YearOf(d), 4) \o <<"-">> \o FmtPad(MonthOf(d), 2) \o <<"-">>
        \o FmtPad(DayOf(d), 2)

\* str(datetime.time): HH:MM:SS (the model's times are whole minutes)
FmtTime(t) ==
    FmtPad(t \div 60, 2) \o <<":">> \o FmtPad(t % 60, 2) \o <<":", "0", "0">>

\* str(Timestamp): YYYY-MM-DD HH:MM:SS.  The export's timestamps all carry
\* one UTC offset; it is left out of the text.
FmtTs(d, t) == FmtDate(d) \o <<" ">> \o FmtTime(t)

\* int(token): a ValueError unless the token is a run of digits
PyInt(t) == IF IsDigits(t) THEN IntVal(DigitsVal(t)) ELSE Raise("ValueError")

\* the date a text YYYY-MM-DD denotes, as pandas reads it
ReadDate(t) ==
    LET p == SplitOn(t, "-")
    IN  IF Len(p) = 3 /\ \A i \in 1..3 : IsDigits(p[i])
        THEN IF ValidDate(DigitsVal(p[1]), DigitsVal(p[2]), DigitsVal(p[3]))
             THEN DateVal(DigitsVal(p[1]) * 10000 + DigitsVal(p[2]) * 100
                          + DigitsVal(p[3]))
             ELSE Raise("ValueError")
        ELSE Raise("ValueError")

\* the time of day a text HH:MM or HH:MM:SS denotes, as pandas reads it
ReadTime(t) ==
    LET p == SplitOn(t, ":")
    IN  IF Len(p) \in {2, 3} /\ \A i \in 1..Len(p) : IsDigits(p[i])
        THEN IF DigitsVal(p[1]) < 24 /\ DigitsVal(p[2]) < 60
             THEN TimeVal(DigitsVal(p[1]) * 60 + DigitsVal(p[2]))
             ELSE Raise("ValueError")
        ELSE Raise("ValueError")

NaT == [k |-> "nat", s |-> <<>>, a |-> 0, b |-> 1]

\* the Timestamp of a text "date time", given what its two parts read as
TsOfDateTime(d, t) ==
    IF IsError(d) THEN d ELSE IF IsError(t) THEN t ELSE TsVal(d.a, t.a)

\* the Timestamp of a text of one part, given what it reads as when taken
\* as a date and when taken as a time
TsOfDateOrTime(d, t) ==
    IF ~IsError(d) THEN TsVal(d.a, 0)
    ELSE IF ~IsError(t) THEN TsVal(0, t.a)
    ELSE Raise("ValueError")

\* the Timestamp of a text, given its parts between blanks
TsOfParts(p) ==
    IF Len(p) = 2 THEN TsOfDateTime(ReadDate(p[1]), ReadTime(p[2]))
    ELSE IF Len(p) = 1 THEN TsOfDateOrTime(ReadDate(p[1]), ReadTime(p[1]))
    ELSE Raise("ValueError")

\* pd.to_datetime of one cell: a text "date", "time" or "date time" becomes
\* a Timestamp (a time alone is given the current day, written 0 here: only
\* .dt.time is ever taken of it); a missing value becomes NaT; a date, time
\* or Timestamp stays what it is
to_datetime(v) ==
    IF v.k = "str" THEN TsOfParts(SplitOn(v.s, " "))
    ELSE IF v.k \in {"nan", "nat", "none"} THEN NaT
    ELSE IF v.k = "date" THEN TsVal(v.a, 0)
    ELSE IF v.k = "ts" THEN v
    ELSE Raise("TypeError")

\* Series.dt.date and Series.dt.time of one cell (an exception raised
\* before is the outcome)
dt_date(v) == IF v.k = "ts" THEN DateVal(v.a) ELSE v
dt_time(v) == IF v.k = "ts" THEN TimeVal(v.b) ELSE v

(***************************************************************************)
(* DataFrames: the column names in order and the rows in order, each row   *)
(* a function from the column names to values.                             *)
(***************************************************************************)
DataFrame(cols, rows) == [k |-> "df", cols |-> cols, rows |-> rows]

EmptyFrame == DataFrame(<<>>, <<>>)

SeqRange(q) == {q[i] : i \in 1..Len(q)}

\* df[c][0]: a KeyError without the column or without a row labelled 0
FirstCell(df, c) ==
    IF c \notin SeqRange(df.cols) \/ Len(df.rows) = 0 THEN Raise("KeyError")
    ELSE df.rows[1][c]

ToDate(v) == dt_date(to_datetime(v))
ToTime(v) == dt_time(to_datetime(v))

\* what is kept of the Timestamp by the three conversions of enforce_dtypes:
\* pd.to_datetime(x).dt.date, pd.to_datetime(x).dt.time, pd.to_datetime(x)
PartOf(to, ts) ==
    IF to = "date" THEN dt_date(ts) ELSE IF to = "time" THEN dt_time(ts) ELSE ts

\* the first error among the values of a sequence, or None
FirstError(vals) ==
    IF \E i \in 1..Len(vals) : IsError(vals[i])
    THEN vals[CHOOSE i \in 1..Len(vals) :
                 IsError(vals[i]) /\ \A j \in 1..(i - 1) : ~IsError(vals[j])]
    ELSE None

\* df[c] = cells; an error among the cells is raised instead
WithCol(df, c, cells, failure) ==
    IF IsError(failure) THEN failure
    ELSE DataFrame(df.cols,
                   [i \in 1..Len(df.rows) |->
                       [col \in DOMAIN df.rows[i] |->
                           IF col = c THEN cells[i] ELSE df.rows[i][col]]])

\* the column converted, cell by cell
ConvertedCol(df, c, to) == [i \in 1..Len(df.rows) |->
                               PartOf(to, to_datetime(df.rows[i][c]))]

\* df[c] = conversion of df[c]; the first error is raised
MapCol(df, c, to) ==
    WithCol(df, c, ConvertedCol(df, c, to), FirstError(ConvertedCol(df, c, to)))

\* the step on a frame whose first cell of the column is known
EnforceFrom(df, c, to, first) ==
    IF IsError(first) THEN first
    ELSE IF first.k = "str" THEN MapCol(df, c, to)
    ELSE df

\* one "if type(df[c][0]) == str: df[c] = ..." step of enforce_dtypes
EnforceCol(df, c, to) ==
    IF IsError(df) THEN df ELSE EnforceFrom(df, c, to, FirstCell(df, c))

\* a mode other than the two prints a message and falls off the end of the
\* function: the call returns None
enforce_dtypes(df, mode) ==
    IF mode = "runs"
    THEN EnforceCol(EnforceCol(EnforceCol(df, "Date", "date"), "Start", "time"),
                    "End", "time")
    ELSE IF mode = "heart_rates"
    THEN EnforceCol(df, "Time", "datetime")
    ELSE None

(***************************************************************************)
(* Series statistics, as pandas computes them: missing values are skipped  *)
(* and the statistic of no value at all is nan.                            *)
(***************************************************************************)
FLe(x, y) == x.a * y.b <= y.a * x.b

FAdd(x, y) == FloatVal(x.a * y.b + y.a * x.b, x.b * y.b)

IsNum(v) == v.k = "float"

NotNull(vals) == SelectSeq(vals, IsNum)

RECURSIVE FSum(_)
FSum(vals) == IF vals = <<>> THEN FloatVal(0, 1) ELSE FAdd(vals[1], FSum(Tail(vals)))

\* the values in ascending order
RECURSIVE FSort(_)
FSort(vals) ==
    IF vals = <<>> THEN <<>>
    ELSE LET i == CHOOSE i \in 1..Len(vals) : \A j \in 1..Len(vals) : FLe(vals[i], vals[j])
         IN  <<vals[i]>> \o FSort(SubSeq(vals, 1, i - 1) \o SubSeq(vals, i + 1, Len(vals)))

series_max(vals) ==
    IF NotNull(vals) = <<>> THEN NaN
    ELSE FSort(NotNull(vals))[Len(NotNull(vals))]

\* a mean that is 0 when there is no value
series_mean_zero(vals) ==
    IF NotNull(vals) = <<>> THEN FloatVal(0, 1)
    ELSE FDiv(FSum(NotNull(vals)), FloatVal(Len(NotNull(vals)), 1))

series_mean(vals) ==
    IF NotNull(vals) = <<>> THEN NaN
    ELSE FDiv(FSum(NotNull(vals)), FloatVal(Len(NotNull(vals)), 1))

series_median(vals) ==
    LET q == FSort(NotNull(vals))
        n == Len(q)
    IN  IF n = 0 THEN NaN
        ELSE IF n % 2 = 1 THEN q[(n + 1) \div 2]
        ELSE FDiv(FAdd(q[n \div 2], q[(n \div 2) + 1]), FloatVal(2, 1))

(***************************************************************************)
(* find_hr: the heart rates inside the time window of one run.             *)
(***************************************************************************)
\* the window with its two ends included
InWindowClosed(sample, row) ==
    /\ dt_date(sample).a = row["Date"].a
    /\ dt_time(sample).a <= row["End"].a
    /\ row["Start"].a <= dt_time(sample).a

\* cond1 & cond2 & cond3 for one sample (a Timestamp) and one row
InWindow(sample, row) ==
    /\ dt_date(sample).a = row["Date"].a
    /\ dt_time(sample).a < row["End"].a
    /\ row["Start"].a < dt_time(sample).a

\* self.heart_rates[cond1 & cond2 & cond3]
WindowRows(heart_rates, row) ==
    SelectSeq(heart_rates.rows, LAMBDA r : InWindow(r["Time"], row))

ValuesOf(rows) == [i \in 1..Len(rows) |-> rows[i]["Value"]]

\* .dt needs a datetime column: an AttributeError on a column of text
find_hr(heart_rates, row, mode) ==
    IF \E i \in 1..Len(heart_rates.rows) : heart_rates.rows[i]["Time"].k \notin {"ts", "nat"}
    THEN Raise("AttributeError")
    ELSE IF mode = "max" THEN series_max(ValuesOf(WindowRows(heart_rates, row)))
    ELSE IF mode = "median" THEN series_median(ValuesOf(WindowRows(heart_rates, row)))
    ELSE IF mode = "mean" THEN series_mean(ValuesOf(WindowRows(heart_rates, row)))
    ELSE IF mode = "all" THEN DataFrame(heart_rates.cols, WindowRows(heart_rates, row))
    ELSE Raise("ValueError")

(***************************************************************************)
(* The parsed export.  An element is its type attribute, its other         *)
(* attributes (name -> text) and, for a workout, the key -> value pairs of *)
(* its MetadataEntry children.  root holds the Record and the Workout      *)
(* children of the document in document order.                             *)
(***************************************************************************)
HeartRateType == "HKQuantityTypeIdentifierHeartRate"
RunningType == "HKWorkoutActivityTypeRunning"

\* root.findall('./Record[@type=...]'), root.findall('./Workout[@workoutActivityType=...]')
FindAll(elements, type) == SelectSeq(elements, LAMBDA e : e.type = type)

\* one cell of pd.DataFrame(list of dicts): the text, or nan for a key the
\* dict lacks
CellOf(d, name) == IF name \in DOMAIN d THEN StrVal(d[name]) ELSE NaN

\* a frame whose columns are only the keys every dict carries
KeysOfEvery(dicts) ==
    {key \in UNION {DOMAIN dicts[i] : i \in 1..Len(dicts)} :
        \A i \in 1..Len(dicts) : key \in DOMAIN dicts[i]}

\* the columns of pd.DataFrame(list of dicts): every key some dict carries
KeysOf(dicts) == UNION {DOMAIN dicts[i] : i \in 1..Len(dicts)}

\* the order of the texts of timestamps (character by character; every
\* text of the model is YYYY-MM-DD HH:MM:SS, where it is the order in time)
RECURSIVE TextLe(_, _)
TextLe(s, t) ==
    IF s = <<>> THEN TRUE
    ELSE IF t = <<>> THEN FALSE
    ELSE IF s[1] = t[1] THEN TextLe(Tail(s), Tail(t))
    ELSE IsDigit(s[1]) /\ IsDigit(t[1]) /\ DigitVal(s[1]) < DigitVal(t[1])

\* missing values sort last
CellTextLe(x, y) == y.k # "str" \/ (x.k = "str" /\ TextLe(x.s, y.s))
TsLe(x, y) == y.k # "ts" \/ (x.k = "ts" /\ (x.a < y.a \/ (x.a = y.a /\ x.b <= y.b)))

\* key(r1) <= key(r2) for the three sorts of the extractors: the raw
\* records by their endDate text, the heart rates by Time, the runs by Date
KeyLe(by, r1, r2) ==
    IF by = "endDate" THEN CellTextLe(CellOf(r1, "endDate"), CellOf(r2, "endDate"))
    ELSE IF by = "Time" THEN TsLe(r1.Time, r2.Time)
    ELSE r2.Date.k # "date" \/ (r1.Date.k = "date" /\ r1.Date.a <= r2.Date.a)

\* the orders sort_values(by) may leave the rows in: every arrangement that
\* is ascending in the key (the default sort is not stable, so rows of
\* equal key may come out in any order)
SortValues(rows, by) ==
    {[i \in 1..Len(rows) |-> rows[p[i]]] :
        p \in {q \in Permutations(1..Len(rows)) :
                 \A i \in 1..(Len(rows) - 1) : KeyLe(by, rows[q[i]], rows[q[i + 1]])}}

\* Series.astype(float) of one cell
AsFloat(v) == IF v.k = "str" THEN PyFloat(v.s) ELSE v

HrCols == <<"Time", "Value", "Unit">>

\* get_hrs up to the merge: the possible results, each a DataFrame or the
\* exception raised
ExtractHrs(root) ==
    LET recs == FindAll(root.records, HeartRateType)
        dicts == [i \in 1..Len(recs) |-> recs[i].attrib]
        for(d) == [Time |-> to_datetime(CellOf(d, "endDate")),
                   Value |-> AsFloat(CellOf(d, "value")),
                   Unit |-> CellOf(d, "unit")]
        cells(q) == [i \in 1..(2 * Len(q)) |->
                        IF i <= Len(q) THEN for(q[i]).Time ELSE for(q[i - Len(q)]).Value]
    IN  IF {"endDate", "value", "unit"} \subseteq KeysOf(dicts)
        THEN IF IsError(FirstError(cells(dicts)))
             THEN {FirstError(cells(dicts))}
             ELSE UNION {
                    {DataFrame(HrCols, r) :
                       r \in SortValues([i \in 1..Len(q) |-> for(q[i])], "Time")} :
                    q \in SortValues(dicts, "endDate")}
        ELSE {Raise("KeyError")}

\* col_maps: the selected keys and the column each becomes
ColMaps ==
    [startDate |-> "Date", endDate |-> "End", totalDistance |-> "Distance",
     duration |-> "Duration", totalEnergyBurned |-> "Energy",
     HKWeatherTemperature |-> "Temperature", HKWeatherHumidity |-> "Humidity",
     HKIndoorWorkout |-> "Indoor", HKElevationAscended |-> "Elevation"]

RunCols ==
    <<"Date", "Distance", "Duration", "Pace", "Speed", "Avg HR", "Max HR", "Energy",
      "Temperature", "Humidity", "Indoor", "Elevation", "Start", "End">>

\* {**workout.attrib, **{md key: md value}}: a metadata key overrides an
\* attribute of the same name
MergedDict(w) ==
    [key \in (DOMAIN w.attrib) \cup (DOMAIN w.meta) |->
        IF key \in DOMAIN w.meta THEN w.meta[key] ELSE w.attrib[key]]

\* one row of runs before the heart-rate columns, from one merged dict
RunRow(d) ==
    LET dist == AsFloat(CellOf(d, "totalDistance"))
        dur == AsFloat(CellOf(d, "duration"))
    IN  [Date |-> ToDate(CellOf(d, "startDate")),
         Start |-> ToTime(CellOf(d, "startDate")),
         End |-> ToTime(CellOf(d, "endDate")),
         Distance |-> dist,
         Duration |-> dur,
         Energy |-> AsFloat(CellOf(d, "totalEnergyBurned")),
         Temperature |-> convert_temp(CellOf(d, "HKWeatherTemperature")),
         Humidity |-> convert_hum(CellOf(d, "HKWeatherHumidity")),
         Elevation |-> convert_elevation(CellOf(d, "HKElevationAscended")),
         Indoor |-> CellOf(d, "HKIndoorWorkout"),
         Speed |-> IF IsError(dist) \/ IsError(dur) THEN NaN
                   ELSE FDiv(FMul(FloatVal(60, 1), dist), dur),
         Pace |-> IF IsError(dist) \/ IsError(dur) THEN NaN ELSE FDiv(dur, dist)]

\* the cells of the rows in the order the code computes them column by
\* column: the three unit parsers, the float columns, the dates and times
RunCells(rows) ==
    LET order == <<"Temperature", "Humidity", "Elevation", "Distance", "Duration",
                   "Energy", "Start", "End", "Date">>
        n == Len(rows)
    IN  [i \in 1..(9 * n) |-> rows[((i - 1) % n) + 1][order[((i - 1) \div n) + 1]]]

\* the row with its two heart-rate columns
WithHr(r, heart_rates) ==
    [c \in SeqRange(RunCols) |->
        IF c = "Max HR" THEN find_hr(heart_rates, r, "max")
        ELSE IF c = "Avg HR" THEN find_hr(heart_rates, r, "mean")
        ELSE r[c]]

\* get_runs up to the merge: the possible results, each a DataFrame or the
\* exception raised
ExtractRuns(root, heart_rates) ==
    LET workouts == FindAll(root.workouts, RunningType)
        dicts == [i \in 1..Len(workouts) |-> MergedDict(workouts[i])]
        rows == [i \in 1..Len(dicts) |-> RunRow(dicts[i])]
        hr(q) == [i \in 1..(2 * Len(q)) |->
                     IF i <= Len(q) THEN find_hr(heart_rates, q[i], "max")
                     ELSE find_hr(heart_rates, q[i - Len(q)], "mean")]
    IN  IF (DOMAIN ColMaps) \subseteq KeysOf(dicts)
        THEN IF IsError(FirstError(RunCells(rows)))
             THEN {FirstError(RunCells(rows))}
             ELSE {IF IsError(FirstError(hr(q))) THEN FirstError(hr(q))
                   ELSE DataFrame(RunCols, [i \in 1..Len(q) |-> WithHr(q[i], heart_rates)]) :
                   q \in SortValues(rows, "Date")}
        ELSE {Raise("KeyError")}

(***************************************************************************)
(* The CSV files.  A file is the column names and the rows of fields; a    *)
(* field is a text, or a numeral: the decimal numeral, with its point,     *)
(* that repr gives a float and that reads back as the same float.          *)
(***************************************************************************)
Numeral(x, y) == [k |-> "numeral", s |-> <<>>, a |-> x, b |-> y]

\* DataFrame.to_csv(index=False): the field written for one cell
ToField(v) ==
    IF v.k = "str" THEN v
    ELSE IF v.k = "float" THEN Numeral(v.a, v.b)
    ELSE IF v.k = "int" THEN StrVal(FmtNat(v.a))
    ELSE IF v.k = "inf" THEN StrVal(<<"i", "n", "f">>)
    ELSE IF v.k = "date" THEN StrVal(FmtDate(v.a))
    ELSE IF v.k = "time" THEN StrVal(FmtTime(v.a))
    ELSE IF v.k = "ts" THEN StrVal(FmtTs(v.a, v.b))
    ELSE StrVal(<<>>)

to_csv(df) ==
    DataFrame(df.cols,
              [i \in 1..Len(df.rows) |-> [c \in DOMAIN df.rows[i] |-> ToField(df.rows[i][c])]])

\* the texts read_csv takes for a missing value (those over the model's
\* characters)
IsNaField(f) ==
    f.k = "str" /\ f.s \in {<<>>, <<"N", "A">>, <<"N", "a", "N">>, <<"n", "a", "n">>}
IsInfField(f) == f.k = "str" /\ f.s = <<"i", "n", "f">>
IsNumField(f) ==
    f.k = "numeral" \/ IsInfField(f) \/ (f.k = "str" /\ ~IsError(PyFloat(f.s)))

\* the value of a numeric field as a float
FieldFloat(f) ==
    IF f.k = "numeral" THEN FloatVal(f.a, f.b)
    ELSE IF IsInfField(f) THEN Inf
    ELSE PyFloat(f.s)

\* pd.read_csv: the type of a column is inferred from all its fields.
\* Whole numbers without a missing value give an int column, numbers give a
\* float column, anything else leaves the texts as they are; a missing
\* value is nan.
ReadField(f, col) ==
    LET present == {g \in col : ~IsNaField(g)}
    IN  IF IsNaField(f) THEN NaN
        ELSE IF present = col /\ \A g \in col : g.k = "str" /\ IsDigits(g.s)
        THEN IntVal(DigitsVal(f.s))
        ELSE IF \A g \in present : IsNumField(g) THEN FieldFloat(f)
        ELSE IF f.k = "numeral" THEN [StrVal(<<"~">>) EXCEPT !.a = f.a, !.b = f.b]
        ELSE f

read_csv(file) ==
    DataFrame(file.cols,
              [i \in 1..Len(file.rows) |->
                  [c \in DOMAIN file.rows[i] |->
                      ReadField(file.rows[i][c],
                                {file.rows[j][c] : j \in 1..Len(file.rows)})]])

(***************************************************************************)
(* The cache on disk and the session.                                      *)
(***************************************************************************)
PyTrue == [k |-> "bool", s |-> <<>>, a |-> 1, b |-> 1]
PyFalse == [k |-> "bool", s |-> <<>>, a |-> 0, b |-> 1]
PyBool(p) == IF p THEN PyTrue ELSE PyFalse

\* the calendar date of the model's i-th day: 2021-09-29, 2021-09-30,
\* 2021-10-01, 2021-10-02, ...
DateOf(i) == IF i <= 2 THEN 20210928 + i ELSE 20211000 + (i - 2)

\* check_cache: the marker is split at its hyphens, every piece is read as
\* an integer, the first three make a date, and the date is compared with
\* today; a missing marker is "not cached"
check_cache(as_of, now) ==
    IF as_of.exists
    THEN LET parts == SplitOn(as_of.text, "-")
             ints == [i \in 1..Len(parts) |-> PyInt(parts[i])]
         IN  IF IsError(FirstError(ints)) THEN FirstError(ints)
             ELSE IF Len(ints) < 3 THEN Raise("IndexError")
             ELSE IF ~ValidDate(ints[1].a, ints[2].a, ints[3].a) THEN Raise("ValueError")
             ELSE PyBool(now = ints[1].a * 10000 + ints[2].a * 100 + ints[3].a)
    ELSE PyFalse

\* the table load_csv assigns to self.runs or self.heart_rates (or the
\* exception raised); load_csv itself returns None
load_csv(mode, runs_file, hr_file) ==
    IF mode = "runs"
    THEN IF runs_file.exists THEN enforce_dtypes(read_csv(runs_file.data), "runs")
         ELSE Raise("FileNotFoundError")
    ELSE IF mode = "heart_rates"
    THEN IF hr_file.exists THEN enforce_dtypes(read_csv(hr_file.data), "heart_rates")
         ELSE Raise("FileNotFoundError")
    ELSE None

\* DataFrame.merge(right): anything but a DataFrame on the right is a
\* TypeError, and the merged frame is a new object the code drops
merge(left, right) == IF right.k = "df" THEN left ELSE Raise("TypeError")

\* get_hrs: what it returns (or raises) and what it leaves in
\* self.heart_rates.  With is_cached set, load_csv assigns the cached table
\* to self.heart_rates and returns None, and the new table is merged with
\* that None.
get_hrs(self_root, self_is_cached, self_heart_rates, runs_file, hr_file) ==
    {IF IsError(new) \/ self_is_cached # PyTrue
     THEN [ret |-> new, heart_rates |-> self_heart_rates]
     ELSE LET old == load_csv("heart_rates", runs_file, hr_file)
          IN  IF IsError(old) THEN [ret |-> old, heart_rates |-> self_heart_rates]
              ELSE IF IsError(merge(new, None))
              THEN [ret |-> merge(new, None), heart_rates |-> old]
              ELSE [ret |-> new, heart_rates |-> old] :
     new \in ExtractHrs(self_root)}

\* get_runs: what it returns (or raises) and what it leaves in self.runs
get_runs(self_root, self_is_cached, self_heart_rates, self_runs, runs_file, hr_file) ==
    {IF IsError(new) \/ self_is_cached # PyTrue
     THEN [ret |-> new, runs |-> self_runs]
     ELSE LET old == load_csv("runs", runs_file, hr_file)
          IN  IF IsError(old) THEN [ret |-> old, runs |-> self_runs]
              ELSE IF IsError(merge(new, None))
              THEN [ret |-> merge(new, None), runs |-> old]
              ELSE [ret |-> new, runs |-> old] :
     new \in ExtractRuns(self_root, self_heart_rates)}

\* save_csvs writing the marker before the tables
MarkerFirst == <<"as_of", "runs", "heart_rates">>

\* the order in which save_csvs writes its three files
SaveOrder == <<"runs", "heart_rates", "as_of">>

\* the text save_csvs writes to the marker: str(today)
MarkerText(now) == FmtDate(now)

NoFile == [exists |-> FALSE, data |-> EmptyFrame, src |-> <<>>, cur |-> FALSE]
NoMarker == [exists |-> FALSE, text |-> <<>>, cur |-> FALSE]
NeverSaved == [ok |-> FALSE, day |-> 0, runs |-> None, heart_rates |-> None]

(***************************************************************************)
(* The exports the sessions are run on.                                    *)
(***************************************************************************)
\* the day the workouts of the exports were recorded: 2021-09-28
WorkoutDay == DateOf(0)
UnitText == <<"c", "/", "m">>

HrRecord(d, t, v) ==
    [type |-> HeartRateType,
     attrib |-> [endDate |-> FmtTs(d, t), value |-> FmtNat(v), unit |-> UnitText]]

CoreAttrib(d1, t1, d2, t2) ==
    [startDate |-> FmtTs(d1, t1), endDate |-> FmtTs(d2, t2),
     totalDistance |-> <<"5">>, duration |-> <<"5", "0">>,
     totalEnergyBurned |-> <<"4", "0", "0">>]

FullMeta(indoor) ==
    [HKWeatherTemperature |-> <<"7", "0", " ", "d", "e", "g", "F">>,
     HKWeatherHumidity |-> <<"5", "0", "0", "0", " ", "%">>,
     HKIndoorWorkout |-> indoor,
     HKElevationAscended |-> <<"1", "2", "0", " ", "c", "m">>]

Without(f, key) == [x \in (DOMAIN f) \ {key} |-> f[x]]

MorningRun ==
    [type |-> RunningType, attrib |-> CoreAttrib(WorkoutDay, 600, WorkoutDay, 660),
     meta |-> FullMeta(<<"0">>)]
\* a run across midnight, on a treadmill: no elevation in its metadata
NightRun ==
    [type |-> RunningType,
     attrib |-> CoreAttrib(WorkoutDay, 1410, WorkoutDay + 1, 30),
     meta |-> Without(FullMeta(<<"1">>), "HKElevationAscended")]
Walk ==
    [type |-> "HKWorkoutActivityTypeWalking",
     attrib |-> CoreAttrib(WorkoutDay, 900, WorkoutDay, 930), meta |-> FullMeta(<<"0">>)]
StepCount ==
    [type |-> "HKQuantityTypeIdentifierStepCount",
     attrib |-> [endDate |-> FmtTs(WorkoutDay, 630), value |-> <<"9">>,
                 unit |-> <<"c">>]]

XmlDocs ==
    << \* one run with three samples, two of them on the window's ends
       [records |-> <<HrRecord(WorkoutDay, 600, 60), StepCount,
                      HrRecord(WorkoutDay, 630, 70), HrRecord(WorkoutDay, 660, 80)>>,
        workouts |-> <<MorningRun, Walk>>],
       \* two runs of one day, two samples of one minute
       [records |-> <<HrRecord(WorkoutDay, 630, 72), HrRecord(WorkoutDay, 630, 70)>>,
        workouts |-> <<NightRun, MorningRun>>],
       \* no heart-rate record at all
       [records |-> <<StepCount>>, workouts |-> <<MorningRun>>],
       \* no run carries an elevation
       [records |-> <<HrRecord(WorkoutDay, 630, 70)>>, workouts |-> <<NightRun>>] >>

(***************************************************************************)
(* State.                                                                  *)
(***************************************************************************)
VARIABLES
    today,            \* the wall clock's day (datetime.today().date() is DateOf(today))
    runs_csv,         \* ./storage/runs.csv
    heart_rates_csv,  \* ./storage/heart_rates.csv
    as_of_txt,        \* ./storage/as_of.txt
    pc,               \* where the running process is
    ctx,              \* "init" inside __init__, "call" in a later call of update_cache
    root,             \* self.root
    is_cached,        \* self.is_cached (None before it is assigned)
    heart_rates,      \* self.heart_rates (None before it is assigned)
    runs,             \* self.runs (None before it is assigned)
    err,              \* the exception the last operation raised, or None
    trace,            \* the steps the process has run, in order
    checked,          \* the day check_cache read as today
    saved,            \* the tables of the last save_csvs that ran to its end
    fn, arg, mode, ret \* a single call of a function: its name, input, mode and result

vars == <<today, runs_csv, heart_rates_csv, as_of_txt, pc, ctx, root,
          is_cached, heart_rates, runs, err, trace, checked, saved, fn, arg, mode, ret>>

disk == <<runs_csv, heart_rates_csv, as_of_txt>>
session == <<pc, ctx, root, is_cached, heart_rates, runs, err, trace, checked>>
call == <<fn, arg, mode, ret>>

NoCall == fn = "" /\ arg = None /\ mode = "" /\ ret = None

NoSession ==
    /\ pc = "none" /\ ctx = "init" /\ root = None /\ is_cached = None
    /\ heart_rates = None /\ runs = None /\ err = None /\ trace = <<>> /\ checked = 0

EmptyDisk ==
    /\ runs_csv = NoFile /\ heart_rates_csv = NoFile /\ as_of_txt = NoMarker
    /\ saved = NeverSaved

\* a fresh checkout: an empty ./storage, no process
Init ==
    /\ today = 1
    /\ EmptyDisk /\ NoSession /\ NoCall

(***************************************************************************)
(* The environment: the clock.                                             *)
(***************************************************************************)
Tick ==
    /\ today < MaxDay
    /\ today' = today + 1
    /\ UNCHANGED <<disk, session, saved, call>>

(***************************************************************************)
(* FitnessProcessor.__init__, statement by statement.                      *)
(***************************************************************************)
\* a new process: self.root = ET.parse(self.xml_file).getroot(), on
\* whatever export the file then holds
Construct ==
    /\ pc' = "check_cache" /\ ctx' = "init"
    /\ \E doc \in SeqRange(XmlDocs) : root' = doc
    /\ is_cached' = None /\ heart_rates' = None /\ runs' = None /\ err' = None
    /\ trace' = <<"parse">> /\ checked' = 0
    /\ UNCHANGED <<today, disk, saved, call>>

\* an exception ends __init__ (no object is left); out of a later call it
\* leaves the object as it is
Raised == IF ctx = "init" THEN "failed" ELSE "ready"

\* self.is_cached = self.check_cache(), and the branch on it
CheckCache ==
    /\ pc = "check_cache"
    /\ LET r == check_cache(as_of_txt, DateOf(today))
       IN  /\ checked' = today
           /\ trace' = Append(trace, "check_cache")
           /\ IF IsError(r)
              THEN pc' = "failed" /\ err' = r /\ UNCHANGED is_cached
              ELSE /\ is_cached' = r /\ UNCHANGED err
                   /\ pc' = IF r = PyTrue THEN "load_hr" ELSE "get_hrs"
    /\ UNCHANGED <<today, disk, ctx, root, heart_rates, runs, saved, call>>

\* self.load_csv('heart_rates')
LoadHr ==
    /\ pc = "load_hr"
    /\ LET r == load_csv("heart_rates", runs_csv, heart_rates_csv)
       IN  /\ trace' = Append(trace, "load_csv")
           /\ IF IsError(r)
              THEN pc' = "failed" /\ err' = r /\ UNCHANGED heart_rates
              ELSE pc' = "load_runs" /\ heart_rates' = r /\ UNCHANGED err
    /\ UNCHANGED <<today, disk, ctx, root, is_cached, runs, checked, saved, call>>

\* self.load_csv('runs')
LoadRuns ==
    /\ pc = "load_runs"
    /\ LET r == load_csv("runs", runs_csv, heart_rates_csv)
       IN  /\ trace' = Append(trace, "load_csv")
           /\ IF IsError(r)
              THEN pc' = "failed" /\ err' = r /\ UNCHANGED runs
              ELSE pc' = "ready" /\ runs' = r /\ UNCHANGED err
    /\ UNCHANGED <<today, disk, ctx, root, is_cached, heart_rates, checked,
                   saved, call>>

(***************************************************************************)
(* update_cache, statement by statement.                                   *)
(***************************************************************************)
\* self.heart_rates = self.get_hrs()
GetHrs ==
    /\ pc = "get_hrs"
    /\ trace' = (IF ctx = "init" THEN Append(trace, "get_hrs") ELSE trace)
    /\ \E o \in get_hrs(root, is_cached, heart_rates, runs_csv, heart_rates_csv) :
         IF IsError(o.ret)
         THEN pc' = Raised /\ err' = o.ret /\ heart_rates' = o.heart_rates
         ELSE pc' = "get_runs" /\ err' = None /\ heart_rates' = o.ret
    /\ UNCHANGED <<today, disk, ctx, root, is_cached, runs, checked, saved, call>>

\* self.runs = self.get_runs()
GetRuns ==
    /\ pc = "get_runs"
    /\ trace' = (IF ctx = "init" THEN Append(trace, "get_runs") ELSE trace)
    /\ \E o \in get_runs(root, is_cached, heart_rates, runs, runs_csv, heart_rates_csv) :
         IF IsError(o.ret)
         THEN pc' = Raised /\ err' = o.ret /\ runs' = o.runs
         ELSE pc' = "save_1" /\ err' = None /\ runs' = o.ret
    /\ UNCHANGED <<today, disk, ctx, root, is_cached, heart_rates, checked, saved, call>>

\* the i-th write of save_csvs
Written(name) ==
    IF name = "runs"
    THEN /\ runs_csv' = [exists |-> TRUE, data |-> to_csv(runs), src |-> root, cur |-> TRUE]
         /\ UNCHANGED <<heart_rates_csv, as_of_txt>>
    ELSE IF name = "heart_rates"
    THEN /\ heart_rates_csv' = [exists |-> TRUE, data |-> to_csv(heart_rates),
                                src |-> root, cur |-> TRUE]
         /\ UNCHANGED <<runs_csv, as_of_txt>>
    ELSE /\ as_of_txt' = [exists |-> TRUE, text |-> MarkerText(DateOf(today)), cur |-> TRUE]
         /\ UNCHANGED <<runs_csv, heart_rates_csv>>

\* the first write: no file is yet of this save
Save1 ==
    /\ pc = "save_1"
    /\ trace' = (IF ctx = "init" THEN Append(trace, "save_csvs") ELSE trace)
    /\ LET name == SaveOrder[1]
       IN  /\ runs_csv' = IF name = "runs"
                          THEN [exists |-> TRUE, data |-> to_csv(runs), src |-> root,
                                cur |-> TRUE]
                          ELSE [runs_csv EXCEPT !.cur = FALSE]
           /\ heart_rates_csv' = IF name = "heart_rates"
                                 THEN [exists |-> TRUE, data |-> to_csv(heart_rates),
                                       src |-> root, cur |-> TRUE]
                                 ELSE [heart_rates_csv EXCEPT !.cur = FALSE]
           /\ as_of_txt' = IF name = "as_of"
                           THEN [exists |-> TRUE, text |-> MarkerText(DateOf(today)),
                                 cur |-> TRUE]
                           ELSE [as_of_txt EXCEPT !.cur = FALSE]
    /\ pc' = "save_2"
    /\ saved' = [saved EXCEPT !.ok = FALSE]
    /\ UNCHANGED <<today, ctx, root, is_cached, heart_rates, runs, err, checked,
                   call>>

Save2 ==
    /\ pc = "save_2"
    /\ Written(SaveOrder[2])
    /\ pc' = "save_3"
    /\ UNCHANGED <<today, ctx, root, is_cached, heart_rates, runs, err, trace,
                   checked, saved, call>>

Save3 ==
    /\ pc = "save_3"
    /\ Written(SaveOrder[3])
    /\ pc' = "ready"
    /\ saved' = [ok |-> TRUE, day |-> today, runs |-> runs, heart_rates |-> heart_rates]
    /\ UNCHANGED <<today, ctx, root, is_cached, heart_rates, runs, err, trace,
                   checked, call>>

\* a write of save_csvs fails (the disk is full, the file is locked): the
\* files written before stay written; open(as_of.txt, 'w+') may already have
\* emptied the marker
SaveFails ==
    /\ pc \in {"save_1", "save_2", "save_3"}
    /\ pc' = Raised /\ err' = Raise("OSError")
    /\ trace' = (IF ctx = "init" /\ pc = "save_1" THEN Append(trace, "save_csvs") ELSE trace)
    /\ saved' = [saved EXCEPT !.ok = FALSE]
    /\ \/ UNCHANGED disk
       \/ /\ SaveOrder[CHOOSE i \in 1..3 : pc = <<"save_1", "save_2", "save_3">>[i]] = "as_of"
          /\ as_of_txt' = [exists |-> TRUE, text |-> <<>>, cur |-> FALSE]
          /\ UNCHANGED <<runs_csv, heart_rates_csv>>
    /\ UNCHANGED <<today, ctx, root, is_cached, heart_rates, runs, checked, call>>

\* the user calls update_cache() on the object __init__ left
UpdateCache ==
    /\ pc = "ready"
    /\ pc' = "get_hrs" /\ ctx' = "call" /\ err' = None
    /\ UNCHANGED <<today, disk, root, is_cached, heart_rates, runs, trace,
                   checked, saved, call>>

Next ==
    \/ Tick \/ Construct \/ CheckCache \/ LoadHr \/ LoadRuns
    \/ GetHrs \/ GetRuns \/ Save1 \/ Save2 \/ Save3 \/ SaveFails

\* sessions: every run of the program constructs one FitnessProcessor
Spec == Init /\ [][Next]_vars

\* sessions in which the user also calls update_cache() again
SpecCalls == Init /\ [][Next \/ UpdateCache]_vars


(***************************************************************************)
(* Claims about sessions.                                                  *)
(***************************************************************************)
\* the session has run check_cache
Checked == ctx = "init" /\ Len(trace) >= 2

IsPrefix(s, full) == Len(s) <= Len(full) /\ s = SubSeq(full, 1, Len(s))

\* the marker as check_cache found it: nothing is written between
\* check_cache and the first step of the branch it chose
JustChecked == Checked /\ Len(trace) = 2 /\ pc \in {"load_hr", "get_hrs", "failed"}

\* C1, FRESH exactly on today's marker: straight after check_cache,
\* is_cached is true if and only if the marker exists and holds the date
\* check_cache took as today
C1_FreshIffToday ==
    (JustChecked /\ is_cached # None) =>
        (is_cached = PyTrue
            <=> (as_of_txt.exists /\ as_of_txt.text = FmtDate(DateOf(checked))))

\* C1, what each kind of session runs: a FRESH one the two loads only, a
\* STALE one the two extractors and then the save, which leaves the two
\* tables in the files and the date of its day in the marker
C1_BranchSteps ==
    /\ (ctx = "init" /\ is_cached = PyTrue) =>
          /\ IsPrefix(trace, <<"parse", "check_cache", "load_csv", "load_csv">>)
          /\ pc = "ready" => Len(trace) = 4
    /\ (ctx = "init" /\ is_cached = PyFalse) =>
          /\ IsPrefix(trace, <<"parse", "check_cache", "get_hrs", "get_runs", "save_csvs">>)
          /\ pc = "ready" =>
                /\ Len(trace) = 5 /\ saved.ok
                /\ runs_csv.exists /\ runs_csv.data = to_csv(runs)
                /\ heart_rates_csv.exists /\ heart_rates_csv.data = to_csv(heart_rates)
                /\ as_of_txt.exists /\ as_of_txt.text = FmtDate(DateOf(saved.day))
                /\ checked <= saved.day /\ saved.day <= today

\* C1: at construction the session is FRESH if and only if the marker
\* exists and parses to today's date, and STALE in every other case; a
\* FRESH session only loads the two tables, a STALE one runs both
\* extractors, persists both tables and writes today's date to the marker.
C1_FreshOrStale ==
    /\ Checked => is_cached \in {PyTrue, PyFalse}
    /\ C1_FreshIffToday
    /\ C1_BranchSteps

\* the session started after the last save, which ran to its end
AfterSave == Checked /\ saved.ok /\ "save_csvs" \notin SeqRange(trace)

\* C2, the marker: a session that starts after a save completed on day D is
\* FRESH when it starts on D and STALE when it starts on another day
C2_MarkerReadBack ==
    /\ (AfterSave /\ saved.day = checked) => is_cached = PyTrue
    /\ (AfterSave /\ saved.day # checked) => is_cached = PyFalse

\* the table but for its Indoor column
WithoutIndoor(df) ==
    [i \in 1..Len(df.rows) |-> [c \in (DOMAIN df.rows[i]) \ {"Indoor"} |-> df.rows[i][c]]]

\* C2, the tables but for one column: a FRESH session holds the heart rates
\* that were persisted, and the runs that were persisted in every column
\* other than Indoor
C2_TablesButIndoor ==
    (AfterSave /\ is_cached = PyTrue /\ pc = "ready") =>
        /\ heart_rates = saved.heart_rates
        /\ runs.cols = saved.runs.cols
        /\ WithoutIndoor(runs) = WithoutIndoor(saved.runs)

\* C2: after a STALE session completes on day D, every later session
\* started on D is FRESH and holds tables identical, cell for cell, to the
\* ones persisted; the first session started on another day is STALE.
C2_SameDayFreshSameTables ==
    /\ C2_MarkerReadBack
    /\ (AfterSave /\ is_cached = PyTrue /\ pc = "ready") =>
          heart_rates = saved.heart_rates /\ runs = saved.runs

\* C3: a session that finds the cache FRESH does not parse the XML export;
\* the parse happens only in STALE sessions.
C3_ParseOnlyWhenStale ==
    (ctx = "init" /\ "parse" \in SeqRange(trace) /\ is_cached # None)
        => is_cached = PyFalse

Extractable ==
    \A h \in ExtractHrs(root) :
        h.k = "df" /\ \A r \in ExtractRuns(root, h) : r.k = "df"

\* C10: update_cache called in any session, is_cached true or false,
\* completes without error (no write failing) and leaves heart_rates and
\* runs the tables freshly extracted from the export.
C10_ReextractionCompletes ==
    (ctx = "call" /\ pc = "ready" /\ err # Raise("OSError") /\ Extractable) =>
        /\ err = None
        /\ heart_rates \in ExtractHrs(root)
        /\ runs \in ExtractRuns(root, heart_rates)

(***************************************************************************)
(* Single calls of the pure functions.  The session is left as it is       *)
(* before any process starts; fn, arg, mode and ret hold the call.         *)
(***************************************************************************)
Idle == today = 1 /\ EmptyDisk /\ NoSession

\* the characters of the texts handed to the parsers
Alphabet == {"0", "1", "2", " ", ".", "c"}

\* every text over the alphabet of at most n characters
Texts(n) == UNION {[1..k -> Alphabet] : k \in 0..n}

\* the arguments of the repository's tests of the parsers
TestTexts ==
    {<<"1", "2", "0", " ", "c", "m">>, <<"1", "0", " ", "d", "e", "g", "F">>,
     <<"5", "0", "0", "0", " ", "%">>}

ParserInputs ==
    {StrVal(s) : s \in Texts(MaxLen) \cup TestTexts}
        \cup {IntVal(10), IntVal(50), FloatVal(127, 5), NaN, None}

ParserNames == {"convert_elevation", "convert_temp", "convert_hum"}

ApplyParser(name, v) ==
    IF name = "convert_elevation" THEN convert_elevation(v)
    ELSE IF name = "convert_temp" THEN convert_temp(v)
    ELSE convert_hum(v)

InitParsers ==
    /\ Idle
    /\ fn = "" /\ mode = "" /\ ret = None
    /\ arg \in ParserInputs

\* one call of a parser on the input
CallParser ==
    /\ fn = ""
    /\ \E name \in ParserNames : fn' = name /\ ret' = ApplyParser(name, arg)
    /\ UNCHANGED <<today, disk, session, saved, arg, mode>>

\* the parser called again, on what it returned
CallParserAgain ==
    /\ fn \in ParserNames /\ mode = "" /\ ~IsError(ret)
    /\ arg' = ret /\ ret' = ApplyParser(fn, ret) /\ mode' = "again"
    /\ UNCHANGED <<today, disk, session, saved, fn>>

NextParsers == CallParser \/ CallParserAgain

SpecParsers == InitParsers /\ [][NextParsers]_vars

(***************************************************************************)
(* C8: the parsers against their reference.                                *)
(***************************************************************************)
\* the numbers whose decimal form is a token of the inputs
RefNumbers ==
    {n \in 0..(Pow10(MaxLen) - 1) : \A i \in 1..Len(FmtNat(n)) : FmtNat(n)[i] \in Alphabet}
        \cup {10, 120, 5000}

\* the text starts with blanks, then tok, and tok ends the text or is
\* followed by a blank: tok is the first whitespace-delimited token
StartsWithToken(s, tok) ==
    \E lead \in 0..Len(s) :
        /\ \A i \in 1..lead : s[i] = " "
        /\ lead + Len(tok) <= Len(s)
        /\ SubSeq(s, lead + 1, lead + Len(tok)) = tok
        /\ (lead + Len(tok) = Len(s) \/ s[lead + Len(tok) + 1] = " ")

\* the float r is the rational x / y
IsRatio(r, x, y) == r = FloatVal(x, y)

\* what the reference gives for the number x / y
AgreesWithReference(name, r, x, y) ==
    IF name = "convert_temp" THEN IsRatio(r, x, y)
    ELSE IF name = "convert_hum" THEN IsRatio(r, x, y * 100)
    ELSE IsRatio(r, x * 254, y * 1200)

\* C8: a parser returns a non-string input unchanged; on a string whose
\* first whitespace-delimited token is the number n (an integer n, or n.d
\* with one decimal d) convert_temp returns n, convert_hum n / 100 and
\* convert_elevation n * 2.54 / 12; and a parser applied to its own result
\* returns that result.
C8_ParsersAgreeWithReference ==
    /\ (fn \in ParserNames /\ mode = "" /\ arg.k # "str") => ret = arg
    /\ (fn \in ParserNames /\ mode = "" /\ arg.k = "str") =>
          \A n \in RefNumbers :
              /\ StartsWithToken(arg.s, FmtNat(n)) => AgreesWithReference(fn, ret, n, 1)
              /\ \A d \in 0..2 :
                    StartsWithToken(arg.s, FmtNat(n) \o <<".">> \o FmtNat(d))
                        => AgreesWithReference(fn, ret, 10 * n + d, 10)
    /\ (fn \in ParserNames /\ mode = "again") => ret = arg

\* "5000 %" has been through convert_hum twice and is 50
C8_Witness ==
    /\ fn = "convert_hum" /\ mode = "again"
    /\ ret = FloatVal(50, 1)


(***************************************************************************)
(* Single calls of enforce_dtypes.                                         *)
(***************************************************************************)
\* a cell as the CSV file gives it (text) and as the extractors give it
DateCells == {StrVal(FmtDate(WorkoutDay)), DateVal(WorkoutDay)}
StartCells == {StrVal(FmtTime(600)), TimeVal(600)}
EndCells == {StrVal(FmtTime(660)), TimeVal(660)}
TimeCells == {StrVal(FmtTs(WorkoutDay, 630)), TsVal(WorkoutDay, 630)}

RunsFrames ==
    {DataFrame(<<"Date", "Start", "End">>, rows) :
        rows \in UNION {[1..n -> [Date : DateCells, Start : StartCells, End : EndCells]] :
                          n \in 1..2}}

HrFrames ==
    {DataFrame(<<"Time", "Value">>, rows) :
        rows \in UNION {[1..n -> [Time : TimeCells, Value : {FloatVal(70, 1)}]] :
                          n \in 1..2}}

\* the tags: the two schemas, the tag of the repository's test, a misspelling
DtypeModes == {"runs", "heart_rates", "yeet", "Runs"}

InitDtypes ==
    /\ Idle
    /\ fn = "" /\ ret = None
    /\ arg \in {EmptyFrame} \cup RunsFrames \cup HrFrames
    /\ mode \in DtypeModes

CallEnforceDtypes ==
    /\ fn = ""
    /\ fn' = "enforce_dtypes" /\ ret' = enforce_dtypes(arg, mode)
    /\ UNCHANGED <<today, disk, session, saved, arg, mode>>

SpecDtypes == InitDtypes /\ [][CallEnforceDtypes]_vars

\* C7: enforce_dtypes called with a tag other than "runs" and "heart_rates"
\* raises an error (the test expects ValueError); it never returns normally.
C7_UnknownTagRaises ==
    (fn = "enforce_dtypes" /\ mode \notin {"runs", "heart_rates"}) => IsError(ret)

(***************************************************************************)
(* Single calls of find_hr, on any table of samples and any row.           *)
(***************************************************************************)
\* an object left by a session that extracted: no process step is pending
Extracted ==
    /\ today = 1 /\ EmptyDisk
    /\ pc = "none" /\ ctx = "init" /\ is_cached = PyFalse
    /\ err = None /\ trace = <<>> /\ checked = 0

\* the moments of the samples: the two ends and the middle of the longest
\* window, and the middle of it a day later
SampleTimes ==
    <<TsVal(WorkoutDay, 600), TsVal(WorkoutDay, 630), TsVal(WorkoutDay, 660),
      TsVal(WorkoutDay + 1, 630)>>

Samples ==
    [Time : SeqRange(SampleTimes), Value : {FloatVal(60, 1), FloatVal(80, 1)},
     Unit : {StrVal(UnitText)}]

\* heart_rates is sorted by Time (get_hrs sorts it, the CSV file keeps the order)
HrTables ==
    {DataFrame(HrCols, rows) :
        rows \in {q \in UNION {[1..n -> Samples] : n \in 1..MaxSamples} :
                    \A i \in 1..(Len(q) - 1) :
                        /\ TsLe(q[i].Time, q[i + 1].Time)}}

\* the rows: every window over the three times of day, the empty and the
\* reversed ones included
WindowRowsOfDay ==
    [Date : {DateVal(WorkoutDay)}, Start : {TimeVal(600), TimeVal(630), TimeVal(660)},
     End : {TimeVal(600), TimeVal(630), TimeVal(660)}]

FindModes == {"max", "median", "mean", "all", "mode"}

InitFind ==
    /\ Extracted /\ root = None /\ runs = None
    /\ heart_rates \in HrTables
    /\ arg \in WindowRowsOfDay
    /\ fn = "" /\ mode = "" /\ ret = None

CallFindHr ==
    /\ fn = ""
    /\ \E m \in FindModes : mode' = m /\ ret' = find_hr(heart_rates, arg, m)
    /\ fn' = "find_hr"
    /\ UNCHANGED <<today, disk, session, saved, arg>>

SpecFind == InitFind /\ [][CallFindHr]_vars

\* the positions of the samples of heart_rates on the row's date and
\* strictly between its Start and its End
Selected(row) ==
    {i \in 1..Len(heart_rates.rows) :
        /\ heart_rates.rows[i].Time.a = row.Date.a
        /\ row.Start.a < heart_rates.rows[i].Time.b
        /\ heart_rates.rows[i].Time.b < row.End.a}

\* the k-th smallest of the selected values (each a whole number of beats)
KthSmallest(row, k) ==
    CHOOSE x \in {heart_rates.rows[i].Value.a : i \in Selected(row)} :
        /\ Cardinality({i \in Selected(row) : heart_rates.rows[i].Value.a < x}) < k
        /\ k <= Cardinality({i \in Selected(row) : heart_rates.rows[i].Value.a <= x})

RECURSIVE SumOfSelected(_)
SumOfSelected(S) ==
    IF S = {} THEN 0
    ELSE LET i == CHOOSE i \in S : TRUE
         IN  heart_rates.rows[i].Value.a + SumOfSelected(S \ {i})

\* C4: find_hr selects exactly the samples on the row's Date with
\* Start < t < End; mode "all" returns them, in the table's order and
\* unmodified; max, median and mean return that statistic of their values.
C4_WindowIsOpen ==
    fn = "find_hr" =>
        LET S == Selected(arg)
            n == Cardinality(S)
        IN  /\ mode = "all" =>
                  /\ ret = DataFrame(heart_rates.cols,
                                     SelectSeq(heart_rates.rows,
                                               LAMBDA r : /\ r.Time.a = arg.Date.a
                                                          /\ arg.Start.a < r.Time.b
                                                          /\ r.Time.b < arg.End.a))
                  /\ Len(ret.rows) = n
                  /\ \A j \in 1..Len(ret.rows) :
                        /\ ret.rows[j].Time.a = arg.Date.a
                        /\ ret.rows[j].Time.b \notin {arg.Start.a, arg.End.a}
            /\ (mode = "max" /\ n > 0) => ret = FloatVal(KthSmallest(arg, n), 1)
            /\ (mode = "mean" /\ n > 0) => IsRatio(ret, SumOfSelected(S), n)
            /\ (mode = "median" /\ n > 0 /\ n % 2 = 1) =>
                  ret = FloatVal(KthSmallest(arg, (n + 1) \div 2), 1)
            /\ (mode = "median" /\ n > 0 /\ n % 2 = 0) =>
                  IsRatio(ret, KthSmallest(arg, n \div 2) + KthSmallest(arg, (n \div 2) + 1), 2)

\* samples at the Start, inside the window and at the End; only the one
\* inside is returned
C4_Witness ==
    /\ fn = "find_hr" /\ mode = "all"
    /\ arg.Start = TimeVal(600) /\ arg.End = TimeVal(660)
    /\ Len(heart_rates.rows) = 3
    /\ \A i \in 1..3 : heart_rates.rows[i].Time = SampleTimes[i]
    /\ Len(ret.rows) = 1 /\ ret.rows[1].Time = SampleTimes[2]


(***************************************************************************)
(* The extractors on any small export: update_cache's two extraction       *)
(* steps in an object whose is_cached is False, then find_hr on a row of   *)
(* the runs they gave.                                                     *)
(***************************************************************************)
\* the keys get_runs selects that say nothing of when the workout was
OptionalKeys ==
    {"totalDistance", "duration", "totalEnergyBurned", "HKWeatherTemperature",
     "HKWeatherHumidity", "HKIndoorWorkout", "HKElevationAscended"}

\* the workout without one of its attributes or metadata entries
Lacking(w, key) ==
    [type |-> w.type,
     attrib |-> [x \in (DOMAIN w.attrib) \ {key} |-> w.attrib[x]],
     meta |-> [x \in (DOMAIN w.meta) \ {key} |-> w.meta[x]]]

\* a run with every field, from 23:30 to 00:30 of the next day
FullNightRun ==
    [type |-> RunningType,
     attrib |-> CoreAttrib(WorkoutDay, 1410, WorkoutDay + 1, 30),
     meta |-> FullMeta(<<"0">>)]

\* the workouts an export is made of
WorkoutKinds ==
    {MorningRun, NightRun, FullNightRun, Walk}
        \cup {Lacking(MorningRun, key) : key \in OptionalKeys}

\* samples at both ends of the morning run, one inside it, and one during
\* the night run, before midnight
RecordsOfDay ==
    <<HrRecord(WorkoutDay, 600, 60), StepCount, HrRecord(WorkoutDay, 630, 70),
      HrRecord(WorkoutDay, 660, 80), HrRecord(WorkoutDay, 1420, 90)>>

RunDocs ==
    {[records |-> RecordsOfDay, workouts |-> w] :
        w \in UNION {[1..n -> WorkoutKinds] : n \in 0..MaxWorkouts}}

InitRuns ==
    /\ Extracted
    /\ root \in RunDocs
    /\ heart_rates = None /\ runs = None
    /\ fn = "" /\ arg = None /\ mode = "" /\ ret = None

\* self.heart_rates = self.get_hrs()
CallGetHrs ==
    /\ fn = "" /\ root # None
    /\ \E o \in get_hrs(root, is_cached, heart_rates, runs_csv, heart_rates_csv) :
          /\ ret' = o.ret
          /\ heart_rates' = IF IsError(o.ret) THEN o.heart_rates ELSE o.ret
    /\ fn' = "get_hrs"
    /\ UNCHANGED <<today, disk, pc, ctx, root, is_cached, runs, err, trace, checked,
                   saved, arg, mode>>

\* self.runs = self.get_runs()
CallGetRuns ==
    /\ fn = "get_hrs" /\ ~IsError(ret)
    /\ \E o \in get_runs(root, is_cached, heart_rates, runs, runs_csv, heart_rates_csv) :
          /\ ret' = o.ret
          /\ runs' = IF IsError(o.ret) THEN o.runs ELSE o.ret
    /\ fn' = "get_runs"
    /\ UNCHANGED <<today, disk, pc, ctx, root, is_cached, heart_rates, err, trace,
                   checked, saved, arg, mode>>

\* self.find_hr(row, mode) on a row of self.runs
CallFindHrOfRun ==
    /\ fn = "get_runs" /\ ~IsError(ret)
    /\ \E i \in 1..Len(runs.rows), m \in {"max", "median", "mean"} :
          /\ arg' = runs.rows[i] /\ mode' = m
          /\ ret' = find_hr(heart_rates, runs.rows[i], m)
    /\ fn' = "find_hr"
    /\ UNCHANGED <<today, disk, session, saved>>

NextRuns == CallGetHrs \/ CallGetRuns \/ CallFindHrOfRun

SpecRuns == InitRuns /\ [][NextRuns]_vars

\* no sample of heart_rates is on the row's date and strictly inside its window
NoSampleInWindow(row) ==
    \A i \in 1..Len(heart_rates.rows) :
        ~(/\ heart_rates.rows[i].Time.a = row.Date.a
          /\ row.Start.a < heart_rates.rows[i].Time.b
          /\ heart_rates.rows[i].Time.b < row.End.a)

\* C5: when the window of a run row selects no sample, as it does for every
\* row whose End is not later than its Start, find_hr in the modes max,
\* median and mean returns nan, not zero and not an error; and every such
\* row of the table get_runs returns has nan as Avg HR and as Max HR.
C5_EmptyWindowIsNaN ==
    /\ (fn = "find_hr" /\ (NoSampleInWindow(arg) \/ arg.End.a <= arg.Start.a))
          => ret = NaN
    /\ (fn = "get_runs" /\ ret.k = "df") =>
          \A i \in 1..Len(ret.rows) :
              (NoSampleInWindow(ret.rows[i]) \/ ret.rows[i].End.a <= ret.rows[i].Start.a)
                  => ret.rows[i]["Avg HR"] = NaN /\ ret.rows[i]["Max HR"] = NaN

\* the median of the heart rates of a run across midnight, with a sample
\* taken during the run
C5_Witness ==
    /\ fn = "find_hr" /\ mode = "median"
    /\ arg.Start = TimeVal(1410) /\ arg.End = TimeVal(30)
    /\ \E i \in 1..Len(heart_rates.rows) : heart_rates.rows[i].Time = TsVal(WorkoutDay, 1420)
    /\ ret = NaN

\* the running workouts of the export, in document order
RunningWorkouts == SelectSeq(root.workouts, LAMBDA w : w.type = RunningType)

Carries(w, key) == key \in (DOMAIN w.attrib) \cup (DOMAIN w.meta)

=============================================================================
